---- MODULE Spec2Model ----
(***************************************************************************)
(* Model of the y-sweet worker gateway (crates/y-sweet-worker/src/lib.rs): *)
(* the router's five workflows, the Auth Guard, and the collaborators they *)
(* call (Token Authority, Document Store, Actor Directory).                *)
(*                                                                         *)
(* Strings the code inspects (headers, tokens, document names, URLs) are   *)
(* sequences of one-character strings, so that prefix stripping, name      *)
(* validation, token decoding and scheme rewriting are computed.           *)
(* An Option<T> is a sequence of length 0 (None) or 1 (Some(x)).           *)
(***************************************************************************)
EXTENDS Integers, Sequences, FiniteSets, TLC

\* The clock runs from 0 to MaxTime.
MaxTime == 1

None == <<>>
Some(x) == <<x>>
Get(o) == o[1]

---------------------------------------------------------------------------
(* Strings *)

BearerPrefix == <<"B", "e", "a", "r", "e", "r", " ">>
WsPath == <<"/", "d", "o", "c", "/", "w", "s">>
KeySuffix == <<"/", "d", "a", "t", "a", ".", "y", "s", "w", "e", "e", "t">>
SchemeSep == <<":", "/", "/">>
Http == <<"h", "t", "t", "p">>
Https == <<"h", "t", "t", "p", "s">>
Ws == <<"w", "s">>
Wss == <<"w", "s", "s">>
Token == <<"t", "o", "k", "e", "n">>

\* str::strip_prefix: the rest of s after prefix p, or None.
StripPrefix(s, p) ==
    IF Len(s) >= Len(p) /\ SubSeq(s, 1, Len(p)) = p
    THEN Some(SubSeq(s, Len(p) + 1, Len(s)))
    ELSE None

\* Position of the first occurrence of character c in s, 0 when absent.
IndexOf(s, c) ==
    IF \E i \in 1..Len(s) : s[i] = c
    THEN CHOOSE i \in 1..Len(s) : s[i] = c /\ \A j \in 1..(i - 1) : s[j] # c
    ELSE 0

UpperChars == {"H", "T", "P", "S"}
LowerChar(c) ==
    CASE c = "H" -> "h" [] c = "T" -> "t" [] c = "P" -> "p" [] c = "S" -> "s"
      [] OTHER -> c
LowerStr(s) == [i \in 1..Len(s) |-> LowerChar(s[i])]
Letters == {"a", "b", "f", "h", "n", "p", "s", "t", "w"} \cup UpperChars

---------------------------------------------------------------------------
(* Token Authority (y_sweet_core::auth::Authenticator).  A token is        *)
(* <<kind, signature, expiry digit>> followed, for a document token, by    *)
(* the document id it is scoped to.  Signature "k" is the authority's key; *)
(* a token is valid at the times before its expiry.                        *)

Digits == <<"0", "1", "2", "3", "4", "5", "6", "7", "8", "9">>
DigitChars == {Digits[i] : i \in 1..Len(Digits)}
DigitOf(c) == (CHOOSE i \in 1..Len(Digits) : Digits[i] = c) - 1
DigitChar(n) == Digits[n + 1]

\* Lifetime of a minted document token, in clock units.
TokenLifetime == 1

WellSigned(t) == Len(t) >= 3 /\ t[2] = "k" /\ t[3] \in DigitChars

verify_server_token(t, time) ==
    /\ WellSigned(t)
    /\ t[1] = "s"
    /\ Len(t) = 3
    /\ DigitOf(t[3]) > time

gen_doc_token(doc_id, time) ==
    <<"d", "k", DigitChar(time + TokenLifetime)>> \o doc_id

verify_doc_token(t, doc_id, time) ==
    /\ WellSigned(t)
    /\ t[1] = "d"
    /\ SubSeq(t, 4, Len(t)) = doc_id
    /\ DigitOf(t[3]) > time

---------------------------------------------------------------------------
(* Document names (y_sweet_core::api_types::validate_doc_name, nanoid) *)

NameChars == {"a", "b", "n", "1", "2", "-", "_"}
validate_doc_name(id) ==
    /\ Len(id) > 0
    /\ \A i \in 1..Len(id) : id[i] \in NameChars

DocA == <<"a">>
DocB == <<"b">>
DocN == <<"n", "_", "1">>
BadName == <<"a", "!">>

\* Ids nanoid!() may return.
NanoIds == {DocN}
\* The `doc` values a /doc/new body may carry.
SuppliedIds == {DocA, BadName, <<>>}
\* The :doc_id path segments of /doc/:doc_id/auth and /doc/ws/:doc_id.
PathIds == {DocA, DocB}

\* The :doc_id path segments of /doc/:doc_id/auth: those, and an id that
\* new_doc refuses.
AuthIds == PathIds \cup {BadName}

\* The storage key of a document.
Key(doc_id) == doc_id \o KeySuffix

---------------------------------------------------------------------------
(* URLs (worker::Url, the url crate) *)

\* Url::parse: the scheme is the text before the first ":", lower-cased;
\* a string with no scheme is a relative URL and fails to parse.
UrlParse(s) ==
    LET i == IndexOf(s, ":") IN
    IF i <= 1 \/ \E j \in 1..(i - 1) : s[j] \notin Letters
    THEN None
    ELSE Some([scheme |-> LowerStr(SubSeq(s, 1, i - 1)),
               rest |-> SubSeq(s, i, Len(s))])

\* Url::set_scheme between the schemes the code uses always succeeds.
SetScheme(u, scheme) == [u EXCEPT !.scheme = scheme]

\* Display of a Url: an empty path is written "/".
UrlDisplay(u) ==
    LET hasPath == \E i \in 4..Len(u.rest) : u.rest[i] = "/" IN
    u.scheme \o u.rest \o (IF hasPath THEN <<>> ELSE <<"/">>)

\* The scheme of a URL string: the text before its first ":".
SchemeOf(url) == SubSeq(url, 1, IndexOf(url, ":") - 1)

HostH == <<"h">>
PrefixHttp == Http \o SchemeSep \o HostH
PrefixHttps == Https \o SchemeSep \o HostH
PrefixUpper == <<"H", "T", "T", "P", "S">> \o SchemeSep \o HostH
PrefixFtp == <<"f", "t", "p">> \o SchemeSep \o HostH
PrefixBare == HostH

\* Values of config.url_prefix.
UrlPrefixes ==
    {None, Some(PrefixHttp), Some(PrefixHttps), Some(PrefixUpper),
     Some(PrefixFtp), Some(PrefixBare)}

\* Values of the authentication configuration: no key, a key, a key the
\* Authenticator cannot be built from.
AuthModes == {"disabled", "enabled", "badkey"}

\* The configurations checked: every url_prefix with authentication
\* enabled, two of them with it disabled, one with a bad key.
Configs ==
    {<<"enabled", p>> : p \in UrlPrefixes}
        \cup {<<"disabled", None>>, <<"disabled", Some(PrefixHttps)>>,
              <<"badkey", None>>}

---------------------------------------------------------------------------
(* Request inputs *)

SrvGood == <<"s", "k", "9">>
SrvShort == <<"s", "k", "1">>
SrvForged == <<"s", "x", "9">>
DocForged == <<"d", "x", "9">> \o DocA
\* A well-signed document token that this gateway did not mint.
DocForeign == <<"d", "k", "9">> \o DocB

\* The tokens sent in Authorization headers.
HeaderTokens == {SrvGood, SrvShort, SrvForged, gen_doc_token(DocA, MaxTime)}

\* Values of the Authorization header.
AuthHeaders ==
    {None}
        \cup {Some(BearerPrefix \o t) : t \in HeaderTokens}
        \cup {
     Some(<<"b", "e", "a", "r", "e", "r", " ">> \o SrvGood),
     Some(<<"B", "e", "a", "r", "e", "r">> \o SrvGood)}

\* Values of the Authorization header of a /doc/ws/:doc_id request: absent,
\* a valid server token, an invalid one, a malformed header.
ForwardHeaders ==
    {None, Some(BearerPrefix \o SrvGood), Some(BearerPrefix \o SrvForged),
     Some(<<"B", "e", "a", "r", "e", "r">> \o SrvGood)}

\* Bodies of POST /doc/new: wf is whether the body parses as a
\* DocCreationRequest, doc its optional `doc` field.
Bodies ==
    {[wf |-> FALSE, doc |-> None], [wf |-> TRUE, doc |-> None]}
        \cup {[wf |-> TRUE, doc |-> Some(d)] : d \in SuppliedIds}
NoBody == [wf |-> FALSE, doc |-> None]

Hosts == {None, Some(HostH)}
ForwardedProtos == {None, Some(Https), Some(Http), Some(<<"H", "T", "T", "P", "S">>)}

Pair(k, v) == [k |-> k, v |-> v]
\* Query strings of /doc/ws/:doc_id, as the sequence query_pairs() yields,
\* for a client holding the document tokens in `held`.
Queries(held) ==
    LET toks == held \cup {DocForged, DocForeign, SrvGood} IN
    {<<>>, <<Pair(<<"x">>, SrvGood)>>}
        \cup {<<Pair(Token, t)>> : t \in toks}
        \cup {<<Pair(Token, t), Pair(Token, DocForged)>> : t \in held}

\* Outcomes of store.init().
StoreInitResults ==
    {[kind |-> "Ok", detail |-> ""],
     [kind |-> "ConnectionError", detail |-> "tcp reset by 10.0.0.7"],
     [kind |-> "BucketDoesNotExist", detail |-> "bucket prod-docs"],
     [kind |-> "NotAuthorized", detail |-> "key AKIA123"],
     [kind |-> "DoesNotExist", detail |-> "no such key"]}

\* What the backing actor may answer to a forwarded request.
ActorResults ==
    {[ok |-> TRUE, status |-> 101], [ok |-> TRUE, status |-> 500],
     [ok |-> FALSE, status |-> 0]}

\* The new_doc requests that may be suspended at an await at one time.
Tasks == {1}

---------------------------------------------------------------------------
(* State.  A handler whose only contact with shared state is one call     *)
(* (check_store, auth_doc, forward, GET /) is one step, taken at that     *)
(* call; new_doc, which opens and later persists, is suspended in between *)
(* and is a task.  `resp` is the response the gateway sent last, with the *)
(* parts of its request that the handler read.                            *)

VARIABLES
    authMode,   \* configuration: authentication mode
    urlPrefix,  \* configuration: config.url_prefix
    now,        \* Date::now()
    store,      \* keys present in the Document Store
    issued,     \* the (doc, token) pairs of the descriptors returned
    tasks,      \* the new_doc requests suspended at an await
    resp        \* the last response, with the request it answers

vars == <<authMode, urlPrefix, now, store, issued, tasks, resp>>

NoRes == [tag |-> "none", err |-> "", val |-> <<>>]
Err(e) == [tag |-> "Err", err |-> e, val |-> <<>>]
Ok(v) == [tag |-> "Ok", err |-> "", val |-> v]
Panic == [tag |-> "Panic", err |-> "", val |-> <<>>]
WorkerErr == [tag |-> "WorkerErr", err |-> "", val |-> <<>>]
Actor(r) == [tag |-> "Actor", err |-> "", val |-> r]

\* A request and what became of it.  hdr: its Authorization header; host:
\* the Host header of an auth_doc request; body, query, xfp: the inputs the
\* handler read; guarded: whether the step that responded ran
\* the Auth Guard on hdr; at: the time of the response; init, probe: the
\* answers of store.init() and store.exists(), when called; had: whether
\* the store held the document of an auth_doc request; mint: the token
\* gen_doc_token returned;
\* stub, sent, calls, answer: the actor resolved, the request handed to it,
\* how many times it was invoked, and what it answered.
Blank ==
    [kind |-> "none", hdr |-> None, body |-> NoBody, doc |-> <<>>,
     query |-> <<>>, host |-> None, xfp |-> None, at |-> 0, res |-> NoRes,
     guarded |-> FALSE, init |-> None, had |-> FALSE, probe |-> None,
     mint |-> None, stub |-> None, sent |-> None, calls |-> 0,
     answer |-> None]

Idle == [pc |-> "idle", body |-> NoBody, doc |-> <<>>]

Init ==
    /\ \E c \in Configs : authMode = c[1] /\ urlPrefix = c[2]
    /\ now = 0
    /\ store = {}
    /\ issued = {}
    /\ tasks = [i \in Tasks |-> Idle]
    /\ resp = Blank

Request(kind) == [Blank EXCEPT !.kind = kind, !.at = now]
Admin(kind, hdr) == [Request(kind) EXCEPT !.hdr = hdr, !.guarded = TRUE]
Finish(t, r) == [t EXCEPT !.res = r]

\* ServerContext::auth(): the Authenticator, if one is configured; an
\* error when it cannot be built from the configured key.
CtxAuth ==
    CASE authMode = "disabled" -> [ok |-> TRUE, auth |-> None]
      [] authMode = "enabled" -> [ok |-> TRUE, auth |-> Some("authenticator")]
      [] OTHER -> [ok |-> FALSE, auth |-> None]

---------------------------------------------------------------------------
(* Auth Guard *)

\* A guard that takes any `Bearer ` header without verifying its token.
CheckServerToken_Unverified(hdr, auth, time) ==
    IF auth = None THEN "Ok"
    ELSE IF hdr = None THEN "ExpectedAuthHeader"
    ELSE IF StripPrefix(Get(hdr), BearerPrefix) = None THEN "BadAuthHeader"
    ELSE "Ok"

\* A guard that matches the `Bearer ` prefix without regard to case.
CheckServerToken_AnyCase(hdr, auth, time) ==
    IF auth = None THEN "Ok"
    ELSE IF hdr = None THEN "ExpectedAuthHeader"
    ELSE LET h == Get(hdr)
             token == StripPrefix(<<"B">> \o Tail(h), BearerPrefix)
         IN  IF h = <<>> \/ h[1] \notin {"B", "b"} \/ token = None
             THEN "BadAuthHeader"
             ELSE IF verify_server_token(Get(token), time) THEN "Ok"
             ELSE "BadAuthHeader"

\* check_server_token(req, auth): "Ok" or the Error it returns.
CheckServerToken(hdr, auth, time) ==
    IF auth = None THEN "Ok"
    ELSE IF hdr = None THEN "ExpectedAuthHeader"
    ELSE LET token == StripPrefix(Get(hdr), BearerPrefix) IN
         IF token = None THEN "BadAuthHeader"
         ELSE IF verify_server_token(Get(token), time) THEN "Ok"
         ELSE "BadAuthHeader"

\* check_server_token(&req, ctx.data.auth()?)?: "Ok" or the Error the
\* request ends with.
Guard(hdr) ==
    IF ~CtxAuth.ok THEN "ConfigurationError"
    ELSE CheckServerToken(hdr, CtxAuth.auth, now)

---------------------------------------------------------------------------
(* POST /doc/new *)

\* An id that is generated even when the body supplies one.
NewDocId_Generated(body, generated) == generated

\* body.doc.unwrap_or_else(|| nanoid!())
NewDocId(body, generated) ==
    IF body.doc = None THEN generated ELSE Get(body.doc)

\* A name check that only refuses the empty name.
NewDocNameOk_NonEmpty(doc_id) == Len(doc_id) > 0

\* The name check of new_doc.
NewDocNameOk(doc_id) == validate_doc_name(doc_id)

\* The task a new request is given.
FreeTask ==
    CHOOSE i \in Tasks :
        tasks[i].pc = "idle" /\ \A j \in Tasks : tasks[j].pc = "idle" => i <= j

\* A new_doc that checks the name only after the document was created and
\* flushed.
NewDocStart_CheckedLate ==
    \E hdr \in AuthHeaders :
        LET r == Admin("new_doc", hdr) IN
        IF Guard(hdr) # "Ok"
        THEN /\ resp' = Finish(r, Err(Guard(hdr)))
             /\ UNCHANGED <<authMode, urlPrefix, now, store, issued, tasks>>
        ELSE \E body \in Bodies :
            LET rb == [r EXCEPT !.body = body] IN
            IF ~body.wf
            THEN /\ resp' = Finish(rb, Err("BadRequest"))
                 /\ UNCHANGED <<authMode, urlPrefix, now, store, issued, tasks>>
            ELSE \E generated \in NanoIds :
                LET doc_id == NewDocId(body, generated)
                    rd == [rb EXCEPT !.doc = doc_id]
                IN  /\ store' = store \cup {Key(doc_id)}
                    /\ resp' = Finish(rd, IF NewDocNameOk(doc_id)
                                          THEN Ok([doc |-> doc_id])
                                          ELSE Err("InvalidDocName"))
                    /\ UNCHANGED <<authMode, urlPrefix, now, issued, tasks>>

\* new_doc up to persist: guard, body, id, name check, and
\* DocWithSyncKv::new(&doc_id, store, ..).await.unwrap(), which opens the
\* stored document or creates an empty one in memory; a failure panics.
NewDocStart ==
    /\ \E hdr \in AuthHeaders :
        LET r == Admin("new_doc", hdr) IN
        IF Guard(hdr) # "Ok"
        THEN /\ resp' = Finish(r, Err(Guard(hdr)))
             /\ tasks' = tasks
        ELSE \E body \in Bodies :
            LET rb == [r EXCEPT !.body = body] IN
            IF ~body.wf
            THEN /\ resp' = Finish(rb, Err("BadRequest"))
                 /\ tasks' = tasks
            ELSE \E generated \in NanoIds :
                LET doc_id == NewDocId(body, generated)
                    rd == [rb EXCEPT !.doc = doc_id]
                IN  IF ~NewDocNameOk(doc_id)
                    THEN /\ resp' = Finish(rd, Err("InvalidDocName"))
                         /\ tasks' = tasks
                    ELSE \E opened \in BOOLEAN :
                        IF ~opened
                        THEN /\ resp' = Finish(rd, Panic)
                             /\ tasks' = tasks
                        ELSE /\ \E i \in Tasks : tasks[i].pc = "idle"
                             /\ tasks' = [tasks EXCEPT ![FreeTask] =
                                    [pc |-> "persist", body |-> body,
                                     doc |-> doc_id]]
                             /\ resp' = resp
    /\ UNCHANGED <<authMode, urlPrefix, now, store, issued>>

\* The response of a suspended new_doc request.
NewDocResponse(t, r) ==
    Finish([Request("new_doc") EXCEPT !.body = t.body, !.doc = t.doc], r)

\* A new_doc that responds without having persisted.
NewDocPersist_Unflushed(i) ==
    /\ tasks[i].pc = "persist"
    /\ resp' = NewDocResponse(tasks[i], Ok([doc |-> tasks[i].doc]))
    /\ tasks' = [tasks EXCEPT ![i] = Idle]
    /\ UNCHANGED <<authMode, urlPrefix, now, store, issued>>

\* dwskv.sync_kv().persist().await.unwrap(), then the response.
NewDocPersist(i) ==
    /\ tasks[i].pc = "persist"
    /\ \E ok \in BOOLEAN :
        IF ok
        THEN /\ store' = store \cup {Key(tasks[i].doc)}
             /\ resp' = NewDocResponse(tasks[i], Ok([doc |-> tasks[i].doc]))
        ELSE /\ store' = store
             /\ resp' = NewDocResponse(tasks[i], Panic)
    /\ tasks' = [tasks EXCEPT ![i] = Idle]
    /\ UNCHANGED <<authMode, urlPrefix, now, issued>>

---------------------------------------------------------------------------
(* GET /check_store *)

\* An answer that passes the store's own message on for the other errors.
CheckStoreJson_Echo(r) ==
    CASE r.kind = "Ok" -> [ok |-> TRUE]
      [] r.kind = "ConnectionError" -> [ok |-> FALSE, error |-> "Connection error."]
      [] r.kind = "BucketDoesNotExist" ->
            [ok |-> FALSE, error |-> "Bucket does not exist."]
      [] r.kind = "NotAuthorized" -> [ok |-> FALSE, error |-> "Not authorized."]
      [] OTHER -> [ok |-> FALSE, error |-> r.detail]

\* The JSON value check_store answers for a result of store.init().
CheckStoreJson(r) ==
    CASE r.kind = "Ok" -> [ok |-> TRUE]
      [] r.kind = "ConnectionError" -> [ok |-> FALSE, error |-> "Connection error."]
      [] r.kind = "BucketDoesNotExist" ->
            [ok |-> FALSE, error |-> "Bucket does not exist."]
      [] r.kind = "NotAuthorized" -> [ok |-> FALSE, error |-> "Not authorized."]
      [] OTHER -> [ok |-> FALSE, error |-> "Unknown error."]

\* A check_store that probes the store before it runs the guard.
CheckStore_ProbeFirst ==
    /\ \E hdr \in AuthHeaders, result \in StoreInitResults :
        LET r == [Admin("check_store", hdr) EXCEPT !.init = Some(result)] IN
        IF Guard(hdr) # "Ok"
        THEN resp' = Finish(r, Err(Guard(hdr)))
        ELSE resp' = Finish(r, Ok(CheckStoreJson(result)))
    /\ UNCHANGED <<authMode, urlPrefix, now, store, issued, tasks>>

CheckStore ==
    /\ \E hdr \in AuthHeaders :
        LET r == Admin("check_store", hdr) IN
        IF Guard(hdr) # "Ok"
        THEN resp' = Finish(r, Err(Guard(hdr)))
        ELSE \E result \in StoreInitResults :
            resp' = Finish([r EXCEPT !.init = Some(result)],
                           Ok(CheckStoreJson(result)))
    /\ UNCHANGED <<authMode, urlPrefix, now, store, issued, tasks>>

---------------------------------------------------------------------------
(* POST /doc/:doc_id/auth *)

UrlOk(url) == [ok |-> TRUE, err |-> "", url |-> url]
UrlErr(e) == [ok |-> FALSE, err |-> e, url |-> <<>>]

\* A probe of the store's data, not of the document's own key: it finds
\* any document once the store holds one.
AuthDocExists_AnyDoc(keys, doc_id) == keys # {}

\* A probe of the document id itself, not of its storage key.
AuthDocExists_BareId(keys, doc_id) == doc_id \in keys

\* store.exists(&format!("{doc_id}/data.ysweet"))
AuthDocExists(keys, doc_id) == (doc_id \o KeySuffix) \in keys

\* The websocket scheme for a parsed url_prefix scheme, None for any other.
PrefixScheme(scheme) ==
    CASE scheme = Http -> Some(Ws)
      [] scheme = Https -> Some(Wss)
      [] OTHER -> None

\* The URL built from a configured url_prefix.
PrefixUrl(prefix) ==
    LET parsed == UrlParse(prefix) IN
    IF parsed = None THEN UrlErr("ConfigurationError")
    ELSE LET scheme == PrefixScheme(Get(parsed).scheme) IN
         IF scheme = None THEN UrlErr("ConfigurationError")
         ELSE UrlOk(UrlDisplay(SetScheme(Get(parsed), Get(scheme))) \o WsPath)

\* A comparison of X-Forwarded-Proto that ignores case.
UseHttps_AnyCase(xfp) == IF xfp = None THEN FALSE ELSE LowerStr(Get(xfp)) = Https

\* use_https: the X-Forwarded-Proto header is exactly "https".
UseHttps(xfp) == IF xfp = None THEN FALSE ELSE Get(xfp) = Https

\* The URL inferred from the Host and X-Forwarded-Proto headers.
InferredUrl(host, xfp) ==
    IF host = None THEN UrlErr("MissingHostHeader")
    ELSE LET scheme == IF UseHttps(xfp) THEN Wss ELSE Ws IN
         UrlOk(scheme \o SchemeSep \o Get(host) \o WsPath)

\* A token minted with the epoch as its issuance time.
AuthDocToken_Epoch(auth, doc_id, time) ==
    IF auth = None THEN None ELSE Some(gen_doc_token(doc_id, 0))

\* The token of the descriptor: ctx.data.auth()?.map(gen_doc_token).
AuthDocToken(auth, doc_id, time) ==
    IF auth = None THEN None ELSE Some(gen_doc_token(doc_id, time))

\* What a descriptor hands its caller.
Grant(doc_id, token) ==
    {[doc |-> doc_id, token |-> token[k]] : k \in 1..Len(token)}

\* A resolution that asks for the Host header before it looks at url_prefix.
AuthDocUrl_HostFirst(prefix, host, xfp) ==
    IF host = None THEN UrlErr("MissingHostHeader")
    ELSE IF prefix # None THEN PrefixUrl(Get(prefix))
    ELSE InferredUrl(host, xfp)

\* The connection URL of auth_doc: from url_prefix when one is configured,
\* from the request's headers otherwise.
AuthDocUrl(prefix, host, xfp) ==
    IF prefix # None THEN PrefixUrl(Get(prefix)) ELSE InferredUrl(host, xfp)

\* The rest of auth_doc once the document is known to exist: the token,
\* the URL, the descriptor.  X-Forwarded-Proto is read only with no
\* url_prefix and after a Host header was found.
AuthDocDescribe(r) ==
    LET token == AuthDocToken(CtxAuth.auth, r.doc, now)
        rm == [r EXCEPT !.mint = token]
    IN  \E xfp \in ForwardedProtos :
        LET url == AuthDocUrl(urlPrefix, r.host, xfp)
            read == IF urlPrefix = None /\ r.host # None THEN xfp ELSE None
        IN  IF url.ok
            THEN /\ resp' = Finish([rm EXCEPT !.xfp = read],
                                   Ok([url |-> url.url, doc |-> r.doc,
                                       token |-> token]))
                 /\ issued' = issued \cup Grant(r.doc, token)
            ELSE /\ resp' = Finish(rm, Err(url.err))
                 /\ issued' = issued

AuthDoc ==
    /\ \E hdr \in AuthHeaders, doc_id \in AuthIds, host \in Hosts :
        LET r == [Admin("auth_doc", hdr) EXCEPT
                    !.doc = doc_id, !.host = host,
                    !.had = Key(doc_id) \in store] IN
        IF Guard(hdr) # "Ok"
        THEN /\ resp' = Finish(r, Err(Guard(hdr)))
             /\ issued' = issued
        ELSE \E probed \in BOOLEAN :
            IF ~probed
            THEN /\ resp' = Finish(r, Err("UpstreamConnectionError"))
                 /\ issued' = issued
            ELSE IF ~AuthDocExists(store, doc_id)
            THEN /\ resp' = Finish([r EXCEPT !.probe = Some(FALSE)],
                                   Err("NoSuchDocument"))
                 /\ issued' = issued
            ELSE AuthDocDescribe([r EXCEPT !.probe = Some(TRUE)])
    /\ UNCHANGED <<authMode, urlPrefix, now, store, tasks>>

---------------------------------------------------------------------------
(* GET /doc/ws/:doc_id *)

\* query.get("token") on the HashMap collected from query_pairs(): the
\* value of the last pair with that key.
QueryGet(query, key) ==
    LET at == {k \in 1..Len(query) : query[k].k = key} IN
    IF at = {} THEN None
    ELSE Some(query[CHOOSE k \in at : \A j \in at : j <= k].v)

\* A check that requires the token parameter but never verifies it.
ForwardAuth_Unverified(auth, query, doc_id, time) ==
    IF auth = None THEN "Ok"
    ELSE IF QueryGet(query, Token) = None THEN "ExpectedClientAuthHeader"
    ELSE "Ok"

\* A check that verifies the token without regard to the document it is
\* scoped to.
ForwardAuth_Unscoped(auth, query, doc_id, time) ==
    IF auth = None THEN "Ok"
    ELSE LET token == QueryGet(query, Token) IN
         IF token = None THEN "ExpectedClientAuthHeader"
         ELSE IF \E d \in PathIds : verify_doc_token(Get(token), d, time)
              THEN "Ok"
         ELSE "BadClientAuthHeader"

\* A check that verifies a token when there is one and passes a request
\* that has none.
ForwardAuth_Optional(auth, query, doc_id, time) ==
    IF auth = None THEN "Ok"
    ELSE LET token == QueryGet(query, Token) IN
         IF token = None THEN "Ok"
         ELSE IF verify_doc_token(Get(token), doc_id, time) THEN "Ok"
         ELSE "BadClientAuthHeader"

\* The document-token check of forward_to_durable_object: "Ok" or the
\* Error the request ends with.
ForwardAuth(auth, query, doc_id, time) ==
    IF auth = None THEN "Ok"
    ELSE LET token == QueryGet(query, Token) IN
         IF token = None THEN "ExpectedClientAuthHeader"
         ELSE IF verify_doc_token(Get(token), doc_id, time) THEN "Ok"
         ELSE "BadClientAuthHeader"

\* A resolution by the namespace's own name: one instance for every document.
IdFromName_Shared(doc_id) == [ns |-> "Y_SWEET", name |-> <<"Y", "_", "S">>]

\* A check that a valid server token in the Authorization header passes too.
ForwardAdmit_Guarded(hdr, query, doc_id) ==
    IF CtxAuth.auth # None /\ CheckServerToken(hdr, CtxAuth.auth, now) = "Ok"
    THEN "Ok"
    ELSE ForwardAuth(CtxAuth.auth, query, doc_id, now)

\* What forward_to_durable_object decides for a request with Authorization
\* header hdr and query `query`: the document-token check on the query
\* alone; it does not call check_server_token and reads no header.
ForwardAdmit(hdr, query, doc_id) ==
    ForwardAuth(CtxAuth.auth, query, doc_id, now)

\* durable_object.id_from_name(&doc_id): the instance named doc_id in the
\* Y_SWEET namespace.
IdFromName(doc_id) == [ns |-> "Y_SWEET", name |-> doc_id]

\* The path of a /doc/ws/:doc_id request.
RequestPath(doc_id) == WsPath \o <<"/">> \o doc_id

\* The request handed to the actor: a clone of the original, which loses
\* the path, with the path written back.
ForwardedRequest(path) == [[path |-> <<>>] EXCEPT !.path = path]

\* A result that replaces an error of the actor by the gateway's own.
ForwardResponse_Masked(answer) ==
    IF answer.ok THEN Actor(answer) ELSE Err("InternalError")

\* stub.fetch_with_request(req).await, the handler's last expression: the
\* actor's answer is the handler's result.
ForwardResponse(answer) == Actor(answer)

\* The rest of forward_to_durable_object once the token check is passed:
\* the namespace and the stub, the clone with its path, the server context
\* installed on it (each `?` ends the request with the worker's error),
\* then the one call of the actor.
ForwardHandOff(r) ==
    \E env \in BOOLEAN :
        IF ~env THEN resp' = Finish(r, WorkerErr)
        ELSE \E answer \in ActorResults :
            resp' = Finish(
                [r EXCEPT !.stub = Some(IdFromName(r.doc)),
                          !.sent = Some(ForwardedRequest(RequestPath(r.doc))),
                          !.calls = 1,
                          !.answer = Some(answer)],
                ForwardResponse(answer))

\* The query is read only when an Authenticator is configured.
Forward ==
    /\ \E doc_id \in PathIds, hdr \in ForwardHeaders :
        LET r == [Request("forward") EXCEPT !.doc = doc_id, !.hdr = hdr] IN
        IF ~CtxAuth.ok THEN resp' = Finish(r, Panic)
        ELSE IF CtxAuth.auth = None THEN ForwardHandOff(r)
        ELSE \E query \in Queries({g.token : g \in issued}) :
            LET rq == [r EXCEPT !.query = query]
                auth == ForwardAdmit(hdr, query, doc_id)
            IN  IF auth # "Ok" THEN resp' = Finish(rq, Err(auth))
                ELSE ForwardHandOff(rq)
    /\ UNCHANGED <<authMode, urlPrefix, now, store, issued, tasks>>

---------------------------------------------------------------------------
(* GET / and the clock *)

Root ==
    /\ resp' = Finish(Request("root"), Ok([text |-> "Y-Sweet!"]))
    /\ UNCHANGED <<authMode, urlPrefix, now, store, issued, tasks>>

Tick ==
    /\ now < MaxTime
    /\ now' = now + 1
    /\ UNCHANGED <<authMode, urlPrefix, store, issued, tasks, resp>>

Next ==
    \/ Tick
    \/ NewDocStart
    \/ \E i \in Tasks : NewDocPersist(i)
    \/ CheckStore
    \/ AuthDoc
    \/ Forward
    \/ Root

Spec == Init /\ [][Next]_vars

---------------------------------------------------------------------------
(* Properties *)

\* The request of `resp` reached the actor: it was resolved or invoked.
ReachedActor == resp.stub # None \/ resp.sent # None \/ resp.calls > 0

\* The `token` query parameter of the request of `resp`.
TokenParam == QueryGet(resp.query, Token)

\* C1: with authentication enabled, forward_to_durable_object resolves and
\* invokes the actor for doc_id only if the request carries a `token`
\* parameter that verify_doc_token accepts for doc_id at that time; with no
\* token it ends with ExpectedClientAuthHeader, with a token that fails
\* verification with BadClientAuthHeader, the actor untouched in both; with
\* authentication disabled the request is forwarded, token or not.
C1_ForwardRequiresDocToken ==
    resp.kind = "forward" =>
        /\ authMode = "enabled" /\ TokenParam = None =>
                resp.res = Err("ExpectedClientAuthHeader") /\ ~ReachedActor
        /\ authMode = "enabled" /\ TokenParam # None
                /\ ~verify_doc_token(Get(TokenParam), resp.doc, resp.at) =>
                resp.res = Err("BadClientAuthHeader") /\ ~ReachedActor
        /\ authMode = "enabled" /\ ReachedActor =>
                /\ TokenParam # None
                /\ verify_doc_token(Get(TokenParam), resp.doc, resp.at)
        /\ authMode = "disabled" => resp.res.tag \in {"Actor", "WorkerErr"}

\* C1 witness: with authentication enabled, a request with an accepted
\* token was handed to the actor.
C1_Witness ==
    /\ resp.kind = "forward" /\ authMode = "enabled"
    /\ resp.calls = 1 /\ resp.res.tag = "Actor"

\* C2: with authentication enabled, a token that auth_doc returned for
\* document A, presented on /doc/ws/B with B # A, is rejected with
\* BadClientAuthHeader and the actor for B is not invoked.
C2_TokenScopedToItsDocument ==
    resp.kind = "forward" /\ authMode = "enabled" /\ TokenParam # None =>
        \A g \in issued :
            g.token = Get(TokenParam) /\ g.doc # resp.doc =>
                resp.res = Err("BadClientAuthHeader") /\ ~ReachedActor

\* C2 witness: a token issued for document a was presented for document b
\* and rejected.
C2_Witness ==
    /\ resp.kind = "forward" /\ authMode = "enabled" /\ resp.doc = DocB
    /\ TokenParam # None
    /\ [doc |-> DocA, token |-> Get(TokenParam)] \in issued
    /\ resp.res = Err("BadClientAuthHeader")

\* The Authorization headers the Auth Guard is to admit at `time`:
\* `Bearer ` followed by a server token valid then.
AdmittedHeaders(time) ==
    {Some(BearerPrefix \o t) :
        t \in {s \in HeaderTokens : verify_server_token(s, time)}}

\* C3: with authentication enabled, gen_doc_token is called only by an
\* auth_doc request that presented a valid `Bearer` server token; no other
\* workflow mints or hands out a document token.
C3_MintOnlyBehindGuard ==
    authMode = "enabled" =>
        /\ resp.mint # None =>
                /\ resp.kind = "auth_doc"
                /\ resp.guarded
                /\ resp.hdr \in AdmittedHeaders(resp.at)
        /\ resp.kind # "auth_doc" /\ resp.res.tag = "Ok" =>
                "token" \notin DOMAIN resp.res.val

\* C3 witness: an auth_doc request minted a token.
C3_Witness ==
    authMode = "enabled" /\ resp.kind = "auth_doc" /\ resp.mint # None

GuardErrors == {Err("ExpectedAuthHeader"), Err("BadAuthHeader")}

\* C4: the Auth Guard admits every request when no Token Authority is
\* configured; with one it admits exactly the requests whose Authorization
\* header is `Bearer ` followed by a server token valid at that time, an
\* absent header yields ExpectedAuthHeader and any other header
\* BadAuthHeader, in each of new_doc, check_store and auth_doc.
C4_AuthGuard ==
    resp.guarded =>
        /\ resp.kind \in {"new_doc", "check_store", "auth_doc"}
        /\ authMode = "disabled" => resp.res \notin GuardErrors
        /\ authMode = "enabled" /\ resp.hdr = None =>
                resp.res = Err("ExpectedAuthHeader")
        /\ authMode = "enabled" /\ resp.hdr # None
                /\ resp.hdr \notin AdmittedHeaders(resp.at) =>
                resp.res = Err("BadAuthHeader")
        /\ authMode = "enabled" /\ resp.hdr \in AdmittedHeaders(resp.at) =>
                resp.res \notin GuardErrors

\* C4 witness: with authentication enabled, new_doc rejected a header whose
\* scheme is not exactly `Bearer `.
C4_Witness ==
    /\ authMode = "enabled" /\ resp.kind = "new_doc" /\ resp.guarded
    /\ resp.hdr = Some(<<"b", "e", "a", "r", "e", "r", " ">> \o SrvGood)
    /\ resp.res = Err("BadAuthHeader")

\* The request of `resp` passed the Auth Guard.
Admitted ==
    resp.guarded /\ authMode # "badkey" /\ resp.res \notin GuardErrors

\* The result of `resp` is a descriptor for document id.
Descriptor(id) ==
    /\ resp.res.tag = "Ok"
    /\ DOMAIN resp.res.val = {"url", "doc", "token"}
    /\ resp.res.val.doc = id

\* C5 as stated, for a store that answers the probe: an admitted
\* auth_doc(id) returns NoSuchDocument when the store has no
\* `<id>/data.ysweet` key and a descriptor whose doc is id when it has.
C5_Original ==
    resp.kind = "auth_doc" /\ Admitted /\ resp.probe # None =>
        IF resp.had THEN Descriptor(resp.doc)
        ELSE resp.res = Err("NoSuchDocument")

\* C5 amended: an admitted auth_doc(id) whose existence probe fails returns
\* UpstreamConnectionError; otherwise it returns NoSuchDocument when the
\* store has no `<id>/data.ysweet` key, and when the store has the key it
\* returns a descriptor whose doc is id, unless the connection URL cannot be
\* resolved (MissingHostHeader with no url_prefix and no Host header,
\* ConfigurationError with a url_prefix that is not an http or https URL).
C5_AuthDocExistence ==
    resp.kind = "auth_doc" /\ Admitted =>
        /\ resp.probe \in {None, Some(resp.had)}
        /\ resp.probe = None => resp.res = Err("UpstreamConnectionError")
        /\ resp.probe = Some(FALSE) => resp.res = Err("NoSuchDocument")
        /\ resp.probe = Some(TRUE) =>
                \/ Descriptor(resp.doc)
                \/ /\ resp.res = Err("MissingHostHeader")
                   /\ urlPrefix = None
                \/ /\ resp.res = Err("ConfigurationError")
                   /\ urlPrefix \in {Some(PrefixFtp), Some(PrefixBare)}
        /\ resp.had => Key(resp.doc) \in store

\* C5 witness: auth_doc returned a descriptor for a document that new_doc
\* had created.
C5_Witness ==
    resp.kind = "auth_doc" /\ Admitted /\ resp.had /\ Descriptor(resp.doc)

\* C6: when new_doc has returned its success response for id the store
\* holds the document, so an auth_doc(id) probing afterwards does not answer
\* NoSuchDocument; an auth_doc(id) succeeds only when the document has been
\* persisted, also while its creation is in progress.
C6_PersistBeforeResponse ==
    /\ resp.kind = "new_doc" /\ resp.res.tag = "Ok" =>
            Key(resp.res.val.doc) \in store
    /\ resp.kind = "auth_doc" /\ resp.res = Err("NoSuchDocument") =>
            ~resp.had
    /\ resp.kind = "auth_doc" /\ resp.res.tag = "Ok" =>
            resp.had /\ Key(resp.doc) \in store
    /\ \A i \in Tasks :
            tasks[i].pc = "persist" /\ Key(tasks[i].doc) \notin store =>
                ~(resp.kind = "auth_doc" /\ resp.doc = tasks[i].doc
                    /\ resp.res.tag = "Ok")

\* C6 witness: new_doc returned success for a document.
C6_Witness ==
    /\ resp.kind = "new_doc" /\ resp.res.tag = "Ok"
    /\ Key(resp.res.val.doc) \in store

\* C7: new_doc checks the id with validate_doc_name, supplied or generated:
\* an id that fails ends the request with InvalidDocName, and no success
\* response, suspended request or stored document has an id that fails.
C7_CreatedIdsAreValid ==
    /\ resp.kind = "new_doc" /\ resp.res.tag = "Ok" =>
            validate_doc_name(resp.res.val.doc)
    /\ resp.kind = "new_doc" /\ Admitted /\ resp.body.wf
            /\ ~validate_doc_name(resp.doc) =>
            resp.res = Err("InvalidDocName")
    /\ \A i \in Tasks : tasks[i].pc # "idle" => validate_doc_name(tasks[i].doc)
    /\ \A k \in store :
            \E d \in SuppliedIds \cup NanoIds :
                validate_doc_name(d) /\ k = Key(d)

\* C7 witness: new_doc refused a supplied id that fails validation.
C7_Witness ==
    /\ resp.kind = "new_doc" /\ resp.body.doc = Some(BadName)
    /\ resp.res = Err("InvalidDocName")

\* C8: a successful new_doc returns the id it initialized in the store: the
\* supplied id unchanged when the body has one, a generated id when it has
\* none, and nothing but the id.
C8_ReturnsTheCreatedId ==
    resp.kind = "new_doc" /\ resp.res.tag = "Ok" =>
        /\ DOMAIN resp.res.val = {"doc"}
        /\ resp.body.doc # None => resp.res.val.doc = Get(resp.body.doc)
        /\ resp.body.doc = None => resp.res.val.doc \in NanoIds
        /\ Key(resp.res.val.doc) \in store

\* C8 witness: new_doc returned a supplied id.
C8_Witness ==
    /\ resp.kind = "new_doc" /\ resp.res.tag = "Ok"
    /\ resp.body.doc = Some(DocA) /\ resp.res.val.doc = DocA

\* The scheme a url_prefix is written with, in lower case.
WrittenScheme(prefix) == LowerStr(SubSeq(prefix, 1, IndexOf(prefix, ":") - 1))

\* C9: the URL of a descriptor has scheme wss exactly when the url_prefix
\* scheme is https and ws exactly when it is http; with no url_prefix, wss
\* exactly when X-Forwarded-Proto is exactly "https", ws for any other value
\* and when the header is absent.
C9_UrlScheme ==
    resp.kind = "auth_doc" /\ resp.res.tag = "Ok" =>
        LET scheme == SchemeOf(resp.res.val.url) IN
        /\ scheme \in {Ws, Wss}
        /\ urlPrefix # None =>
                /\ scheme = Wss <=> WrittenScheme(Get(urlPrefix)) = Https
                /\ scheme = Ws <=> WrittenScheme(Get(urlPrefix)) = Http
        /\ urlPrefix = None =>
                (scheme = Wss <=> resp.xfp = Some(Https))

\* C9 witness: with no url_prefix, a request whose X-Forwarded-Proto is
\* "HTTPS" got a ws URL.
C9_Witness ==
    /\ resp.kind = "auth_doc" /\ resp.res.tag = "Ok" /\ urlPrefix = None
    /\ resp.xfp = Some(<<"H", "T", "T", "P", "S">>)
    /\ SchemeOf(resp.res.val.url) = Ws

\* The message check_store is to give for a failure category.
StoreMessage(kind) ==
    CASE kind = "ConnectionError" -> "Connection error."
      [] kind = "BucketDoesNotExist" -> "Bucket does not exist."
      [] kind = "NotAuthorized" -> "Not authorized."
      [] OTHER -> "Unknown error."

\* C10: an admitted check_store never ends with an Error: it answers
\* {ok: true} when store.init() succeeds and otherwise {ok: false, error: m}
\* with m the fixed message of the failure category, never the store
\* error's own detail.
C10_CheckStoreShape ==
    resp.kind = "check_store" /\ Admitted =>
        /\ resp.res.tag = "Ok"
        /\ resp.init # None
        /\ LET r == Get(resp.init)
               v == resp.res.val
           IN  IF r.kind = "Ok" THEN v = [ok |-> TRUE]
               ELSE /\ DOMAIN v = {"ok", "error"}
                    /\ v.ok = FALSE
                    /\ v.error = StoreMessage(r.kind)
                    /\ v.error # r.detail

\* C10 witness: check_store answered "Unknown error." for a store error of
\* no named category.
C10_Witness ==
    /\ resp.kind = "check_store" /\ resp.res.tag = "Ok"
    /\ resp.init # None /\ Get(resp.init).kind = "DoesNotExist"
    /\ resp.res.val = [ok |-> FALSE, error |-> "Unknown error."]

\* C11: of two forwarded requests, one answered right after the other, the
\* actor instances resolved are the same exactly when the doc_ids are the
\* same, whatever their tokens, the time of each and the requests before
\* them; the instance is the one id_from_name gives for the doc_id.
C11_SameInstancePerId ==
    [][resp.kind = "forward" /\ resp.stub # None
            /\ resp'.kind = "forward" /\ resp'.stub # None =>
            /\ resp.doc = resp'.doc <=> resp.stub = resp'.stub
            /\ Get(resp'.stub).name = resp'.doc]_vars

\* C11 witness: with authentication enabled, a request for document a
\* carrying a token the gateway had issued was resolved, after the clock
\* had moved, to the instance named a.
C11_Witness ==
    /\ resp.kind = "forward" /\ authMode = "enabled" /\ resp.at = MaxTime
    /\ resp.doc = DocA
    /\ resp.stub = Some([ns |-> "Y_SWEET", name |-> DocA])
    /\ [doc |-> DocA, token |-> Get(TokenParam)] \in issued

SameOutcome(p, q) ==
    /\ p.res.tag = "Err" \/ q.res.tag = "Err" => p.res = q.res
    /\ p.res.tag = "Panic" <=> q.res.tag = "Panic"
    /\ p.stub # None /\ q.stub # None => p.stub = q.stub

\* C13: forward_to_durable_object does not run the Auth Guard: two
\* /doc/ws/:doc_id requests, one answered right after the other, with the
\* same doc_id, query and time reach the same outcome whatever their
\* Authorization headers; no forward request ends with an error of the
\* guard, and with authentication enabled a request whose Authorization
\* header holds a valid server token is still rejected when its `token`
\* parameter is absent or fails verification.
C13_ForwardIgnoresAuthorization ==
    [][resp'.kind = "forward" =>
        /\ resp.kind = "forward" /\ resp.doc = resp'.doc
                /\ resp.query = resp'.query /\ resp.at = resp'.at =>
                SameOutcome(resp, resp')
        /\ resp'.res \notin GuardErrors
        /\ authMode = "enabled" /\ resp'.hdr \in AdmittedHeaders(resp'.at) =>
                LET token == QueryGet(resp'.query, Token) IN
                /\ token = None =>
                        resp'.res = Err("ExpectedClientAuthHeader")
                /\ token # None
                        /\ ~verify_doc_token(Get(token), resp'.doc, resp'.at) =>
                        resp'.res = Err("BadClientAuthHeader")]_vars

\* C13 witness: with authentication enabled, a request with a valid server
\* token in its Authorization header and no `token` parameter was rejected.
C13_Witness ==
    /\ resp.kind = "forward" /\ authMode = "enabled"
    /\ resp.hdr = Some(BearerPrefix \o SrvGood) /\ TokenParam = None
    /\ resp.res = Err("ExpectedClientAuthHeader") /\ resp.stub = None

\* C14: in new_doc, check_store and auth_doc the Auth Guard runs first: a
\* request that check_server_token rejects ends with the error it returned,
\* and by then no store.init(), no store.exists(), no body, no generated
\* id, no opened document and no minted token: the step changes neither the
\* store nor the requests in progress nor the tokens handed out.
C14_GuardRunsFirst ==
    [][resp' # resp /\ resp'.guarded /\ authMode = "enabled"
            /\ CheckServerToken(resp'.hdr, CtxAuth.auth, resp'.at) # "Ok" =>
        /\ resp'.kind \in {"new_doc", "check_store", "auth_doc"}
        /\ resp'.res =
                Err(CheckServerToken(resp'.hdr, CtxAuth.auth, resp'.at))
        /\ resp'.init = None /\ resp'.probe = None /\ resp'.mint = None
        /\ resp'.body = NoBody
        /\ resp'.kind = "new_doc" => resp'.doc = <<>>
        /\ store' = store /\ tasks' = tasks /\ issued' = issued]_vars

\* C14 witness: while a document was being created, a new_doc request with
\* an expired server token was rejected, the store as it was.
C14_Witness ==
    /\ authMode = "enabled" /\ resp.kind = "new_doc" /\ resp.guarded
    /\ resp.hdr = Some(BearerPrefix \o SrvShort) /\ resp.at = 1
    /\ resp.res = Err("BadAuthHeader")
    /\ \E i \in Tasks : tasks[i].pc = "persist"
    /\ store # {}

\* The Error values of the taxonomy.
Taxonomy ==
    {"ExpectedAuthHeader", "BadAuthHeader", "ExpectedClientAuthHeader",
     "BadClientAuthHeader", "BadRequest", "InvalidDocName", "NoSuchDocument",
     "MissingHostHeader", "ConfigurationError", "UpstreamConnectionError",
     "InternalError"}

\* C15 as stated, for the administrative workflows: a new_doc, check_store
\* or auth_doc request ends with its success value (for check_store the
\* classified answer) or, when the guard, a check or a collaborator
\* (store.exists, DocWithSyncKv::new, persist, authenticator construction)
\* fails, with an Error value of the taxonomy, and in no other way.
C15_Original ==
    resp.kind \in {"new_doc", "check_store", "auth_doc"} =>
        /\ resp.res.tag \in {"Ok", "Err"}
        /\ resp.res.tag = "Err" => resp.res.err \in Taxonomy

\* C16: the descriptor of a successful auth_doc carries a token exactly
\* when authentication is enabled: enabled, the token is the one
\* gen_doc_token gives for the request's doc_id at the time of the request,
\* and it verifies for that doc_id then; disabled, there is no token.
C16_TokenIffAuthEnabled ==
    resp.kind = "auth_doc" /\ resp.res.tag = "Ok" =>
        LET token == resp.res.val.token IN
        /\ authMode \in {"enabled", "disabled"}
        /\ token # None <=> authMode = "enabled"
        /\ token = resp.mint
        /\ token # None =>
                /\ Get(token) = gen_doc_token(resp.doc, resp.at)
                /\ verify_doc_token(Get(token), resp.doc, resp.at)

\* C16 witness: with authentication enabled, a descriptor for document a
\* returned at time 1 carries the token minted for a at time 1.
C16_Witness ==
    /\ resp.kind = "auth_doc" /\ resp.res.tag = "Ok"
    /\ authMode = "enabled" /\ resp.doc = DocA /\ resp.at = 1
    /\ resp.res.val.token = Some(<<"d", "k", "2", "a">>)

\* The request of `resp` is an admitted auth_doc whose document exists: it
\* went on to resolve the connection URL.
ResolvesUrl ==
    resp.kind = "auth_doc" /\ Admitted /\ resp.probe = Some(TRUE)

\* C17: auth_doc resolves the URL by one strategy only.  With a url_prefix,
\* the outcome is decided by the prefix whatever the Host header, which may
\* be missing, and X-Forwarded-Proto is not read: ConfigurationError when
\* the prefix has no scheme or one that is neither http nor https, a
\* descriptor otherwise.  With no url_prefix, MissingHostHeader when the
\* Host header is missing, and a descriptor on that host otherwise.
C17_UrlStrategies ==
    ResolvesUrl =>
        /\ urlPrefix # None =>
                /\ resp.res # Err("MissingHostHeader")
                /\ resp.xfp = None
                /\ IF WrittenScheme(Get(urlPrefix)) \in {Http, Https}
                   THEN Descriptor(resp.doc)
                   ELSE resp.res = Err("ConfigurationError")
        /\ urlPrefix = None =>
                IF resp.host = None
                THEN resp.res = Err("MissingHostHeader")
                ELSE /\ Descriptor(resp.doc)
                     /\ resp.res.val.url \in
                            {sch \o SchemeSep \o Get(resp.host) \o WsPath :
                                sch \in {Ws, Wss}}

\* C17 witness: with a url_prefix configured, a request with no Host header
\* got a descriptor.
C17_Witness ==
    /\ ResolvesUrl /\ urlPrefix = Some(PrefixHttp) /\ resp.host = None
    /\ Descriptor(resp.doc)

\* C18: auth_doc goes guard, existence probe, token mint, URL resolution,
\* and the first step that fails decides the error: a rejected request has
\* probed and minted nothing; an admitted request whose probe fails ends
\* with UpstreamConnectionError and one whose document is missing with
\* NoSuchDocument, whatever the Host header and url_prefix, with no token
\* minted; a token is minted only for a document the store held at the
\* probe, and with authentication enabled it is minted before the URL is
\* resolved, also when the resolution then fails.
C18_AuthDocOrder ==
    resp.kind = "auth_doc" =>
        /\ resp.res \in GuardErrors \/ authMode = "badkey" =>
                resp.probe = None /\ resp.mint = None
        /\ Admitted /\ resp.probe = None =>
                resp.res = Err("UpstreamConnectionError") /\ resp.mint = None
        /\ Admitted /\ resp.probe = Some(FALSE) =>
                resp.res = Err("NoSuchDocument") /\ resp.mint = None
        /\ resp.mint # None =>
                Admitted /\ resp.probe = Some(TRUE) /\ resp.had
        /\ authMode = "enabled" /\ Admitted /\ resp.probe = Some(TRUE) =>
                resp.mint # None
        /\ resp.res.tag = "Err"
                /\ resp.res.err \in {"MissingHostHeader", "ConfigurationError"}
                /\ authMode # "badkey" =>
                resp.probe = Some(TRUE)

\* C18 witness: with authentication enabled and no url_prefix, an admitted
\* request with no Host header for a document that does not exist ended
\* with NoSuchDocument and no token was minted.
C18_Witness ==
    /\ resp.kind = "auth_doc" /\ authMode = "enabled" /\ Admitted
    /\ urlPrefix = None /\ resp.host = None /\ ~resp.had
    /\ resp.res = Err("NoSuchDocument") /\ resp.mint = None

\* The assumption of C19 on a query: its token, if any, is not a document
\* token signed with the authority's key outside the gateway.
FromGateway(query) ==
    QueryGet(query, Token) \notin {Some(DocForeign)}

\* C19: with authentication enabled, and for requests whose token was not
\* made outside the gateway, the actor for document d is resolved only for
\* a request carrying a token that a descriptor for d handed out; a
\* descriptor is handed out only by an auth_doc(d) request with a valid
\* server token, for a document the store held then; and the store never
\* loses a document.
C19_AdmissionChain ==
    [][authMode = "enabled" =>
        /\ store \subseteq store'
        /\ issued' # issued =>
                /\ resp'.kind = "auth_doc" /\ resp'.guarded
                /\ resp'.hdr \in AdmittedHeaders(resp'.at)
                /\ resp'.res.tag = "Ok"
                /\ Key(resp'.doc) \in store
                /\ issued' = issued \cup
                        {[doc |-> resp'.doc, token |-> Get(resp'.mint)]}
        /\ resp'.kind = "forward" /\ resp'.stub # None
                /\ FromGateway(resp'.query) =>
                LET token == QueryGet(resp'.query, Token) IN
                /\ token # None
                /\ [doc |-> resp'.doc, token |-> Get(token)] \in issued
                /\ Key(resp'.doc) \in store]_vars

\* C19 witness: with authentication enabled, the actor of a document that
\* new_doc created answered a request carrying a token that auth_doc had
\* handed out for it.
C19_Witness ==
    /\ authMode = "enabled" /\ resp.kind = "forward"
    /\ resp.res.tag = "Actor" /\ resp.res.val.status = 101
    /\ FromGateway(resp.query)
    /\ [doc |-> resp.doc, token |-> Get(TokenParam)] \in issued
    /\ Key(resp.doc) \in store

\* C20: a new_doc request that ends with BadRequest or InvalidDocName
\* changes neither the store nor the requests in progress, and the id it
\* refused is not in the store; an admitted auth_doc for an id that new_doc
\* refuses, its probe answered, ends with NoSuchDocument.
C20_FailedNewDocLeavesStore ==
    [][resp' # resp =>
        /\ resp'.kind = "new_doc"
                /\ resp'.res \in {Err("BadRequest"), Err("InvalidDocName")} =>
                /\ store' = store /\ tasks' = tasks
                /\ resp'.res = Err("InvalidDocName") =>
                        Key(resp'.doc) \notin store'
        /\ resp'.kind = "auth_doc" /\ resp'.probe # None
                /\ ~validate_doc_name(resp'.doc) =>
                resp'.res = Err("NoSuchDocument") /\ ~resp'.had]_vars

\* C20 witness: after new_doc had created a document, an auth_doc for the
\* id that new_doc refuses ended with NoSuchDocument.
C20_Witness ==
    /\ resp.kind = "auth_doc" /\ resp.doc = BadName /\ resp.probe # None
    /\ resp.res = Err("NoSuchDocument")
    /\ store = {Key(DocA)} /\ Key(BadName) \notin store

====
